---- MODULE Spec2Model ----
(***************************************************************************)
(* Model of src/data_processing.py: the DBops dataset synchronizer.        *)
(*                                                                         *)
(* The relational store is modelled by its committed contents (the set of  *)
(* existing tables, the rows of faq_embeddings, the records of data_hash)  *)
(* plus, for every checked-out connection, the uncommitted work of its     *)
(* open transaction.  Every statement of every storage operation is one    *)
(* step, so failures, crashes and other runs can fall between any two of   *)
(* them.  The id columns (SERIAL) are never read by the program and are    *)
(* left out: faq_embeddings is the sequence of (question, answer,          *)
(* embedding) rows in insertion order, data_hash the set of file_hash      *)
(* values (the column is UNIQUE).                                          *)
(***************************************************************************)
EXTENDS Integers, Sequences, FiniteSets, TLC

\* ------------------------------------------------------------------ bounds
\* Largest number of rows of a dataset handed to process_local_file.
MaxRows == 2
\* Dimension of the vectors the embedding provider returns.
EmbDim == 1

\* ------------------------------------------------------- program constants
\* maxconn of the ThreadedConnectionPool.
maxconn == 10

\* Threads that may call DBops methods.
Procs == {1, 2}
\* The single caller of the sequential specification.
SeqProcs == {1}


\* ---------------------------------------------------------------- datasets
Question(i) == <<"question", i>>
Answer(i) == <<"answer", i>>

\* A DataFrame is a function from its column names to the column values.
Frame(qs, as) == [c \in {"questions", "answers"} |-> IF c = "questions" THEN qs ELSE as]

\* n question/answer pairs, answer i belonging to question i.
FaqFrame(n) == Frame([i \in 1..n |-> Question(i)], [i \in 1..n |-> Answer(i)])

\* The same questions with the answers in the opposite order.
RevFrame(n) == Frame([i \in 1..n |-> Question(i)], [i \in 1..n |-> Answer(n + 1 - i)])

\* Frames that lack one of the two required columns.
NoAnswersFrame == [c \in {"questions"} |-> <<Question(1)>>]
NoQuestionsFrame == [c \in {"answers"} |-> <<Answer(1)>>]

ValidDatasets == {FaqFrame(MaxRows - 1), FaqFrame(MaxRows), RevFrame(MaxRows)}
InvalidDatasets == {NoAnswersFrame, NoQuestionsFrame}
Datasets == ValidDatasets \cup InvalidDatasets

\* ------------------------------------------------------- pure computations
\* pickle.dumps / pickle.loads: a byte string that determines the frame.
PickleDumps(df) == <<"pickle", df>>
PickleLoads(bytes) == bytes[2]

\* sha256(...).hexdigest(): collision-free digest of the byte string.
calculate_file_hash(file_content) == <<"sha256", file_content>>

Fingerprint(df) == calculate_file_hash(PickleDumps(df))

RECURSIVE Pow2(_)
Pow2(n) == IF n = 0 THEN 1 ELSE 2 * Pow2(n - 1)

RECURSIVE FloorLog2(_)
FloorLog2(v) == IF v <= 1 THEN 0 ELSE 1 + FloorLog2(v \div 2)

\* astype(np.float32): the IEEE-754 single precision bit pattern of a
\* non-negative integer-valued float below 2^24.
Float32Bits(v) ==
    IF v = 0 THEN 0
    ELSE LET e == FloorLog2(v)
         IN (e + 127) * Pow2(23) + (v - Pow2(e)) * Pow2(23 - e)

\* tobytes() of one float32, little-endian.
Float32Bytes(v) ==
    LET b == Float32Bits(v)
    IN <<b % 256, (b \div 256) % 256, (b \div 65536) % 256, (b \div 16777216) % 256>>

RECURSIVE ConcatBytes(_, _)
ConcatBytes(vec, k) ==
    IF k > Len(vec) THEN <<>> ELSE Float32Bytes(vec[k]) \o ConcatBytes(vec, k + 1)

\* psycopg2.Binary(np.array(emb).astype(np.float32).tobytes())
EmbeddingBytes(emb) == ConcatBytes(emb, 1)

\* The embedding provider: one vector of EmbDim floats per text.
EmbedVector(text) == [k \in 1..EmbDim |-> 3 * text[2] + k]

\* embed_documents(questions): one vector per question, same order.
embed_documents(questions) == [i \in 1..Len(questions) |-> EmbedVector(questions[i])]

Min(a, b) == IF a <= b THEN a ELSE b

\* A pairing slip: question and answer i get the embedding counted from the end.
InsertArgs_Reversed(questions, answers, embs) ==
    [i \in 1..Min(Len(questions), Min(Len(answers), Len(embs))) |->
        [question |-> questions[i], answer |-> answers[i],
         embedding |-> EmbeddingBytes(embs[Len(embs) + 1 - i])]]

\* The argument list of line 84: zip stops at the shortest of its inputs.
InsertArgs(questions, answers, embs) ==
    [i \in 1..Min(Len(questions), Min(Len(answers), Len(embs))) |->
        [question |-> questions[i], answer |-> answers[i],
         embedding |-> EmbeddingBytes(embs[i])]]

\* The rows a complete refresh from a schema-valid frame stores.
RowsOf(df) == InsertArgs(df["questions"], df["answers"], embed_documents(df["questions"]))

\* A column check that forgets the 'answers' column.
HasRequiredColumns_QuestionsOnly(csv_data) == "questions" \in DOMAIN csv_data

\* Line 66.
HasRequiredColumns(csv_data) ==
    "questions" \in DOMAIN csv_data /\ "answers" \in DOMAIN csv_data

\* A setup that drops and recreates: the table is created even if it exists.
CreateTable_Recreate(t, existing) == {t}

\* CREATE TABLE IF NOT EXISTS t: the tables the statement creates.
CreateTableIfNotExists(t, existing) == IF t \in existing THEN {} ELSE {t}

AllTables == {"faq_embeddings", "data_hash"}

\* A freshly checked-out connection: no transaction open.
IdleConn ==
    [status |-> "idle", faqDel |-> 0, faqIns |-> <<>>,
     hashDel |-> {}, hashIns |-> {}, created |-> {}]

\* No connection checked out.
NoConn == [IdleConn EXCEPT !.status = "none"]

\* ------------------------------------------------------------------- state
VARIABLES
    tables,          \* committed: names of the tables that exist
    faq_embeddings,  \* committed: rows of faq_embeddings
    data_hash,       \* committed: file_hash values of data_hash
    pool,            \* connections the pool can still hand out
    conn,            \* per thread: the connection it holds and its open work
    pc,              \* per thread: position in the code
    op,              \* per thread: the storage operation being executed
    exc,             \* per thread: an exception is propagating
    data_csv,        \* per thread: argument of process_local_file
    file_content,    \* per thread: line 60
    file_hash,       \* per thread: line 61
    ret,             \* per thread: value returned by check_data_hash
    embeddings,      \* per thread: line 69
    call,            \* per thread: the DBops method called last
    outcome,         \* per thread: how that call ended
    calls,           \* history: provider calls of the current run
    failedOps,       \* history: operations that failed in the current call
    branch,          \* history: branch taken at line 62
    pre,             \* history: the store when the current call started
    prev,            \* history: CleanRun of the call before the current one
    overlapped,      \* history: the run shared time with another run
    committed,       \* history: operations whose commit took effect in the call
    recovering       \* history: 0, or position in a chain of runs repeating a
                     \* dataset whose refresh stopped between its two replacements

vars == <<tables, faq_embeddings, data_hash, pool, conn, pc, op, exc, data_csv,
          file_content, file_hash, ret, embeddings, call, outcome, calls, failedOps,
          branch, pre, prev, overlapped, committed, recovering>>

storeVars == <<tables, faq_embeddings, data_hash>>
localVars == <<data_csv, file_content, file_hash>>

Store == [tables |-> tables, faq |-> faq_embeddings, hash |-> data_hash]

\* The dataset of the call thread p made last, if that call was a run that
\* ended normally and without any failure; <<>> otherwise.
CleanRun(p) ==
    IF /\ call[p] = "process_local_file"
       /\ outcome[p] \in {"updated", "up_to_date"}
       /\ failedOps[p] = {}
    THEN data_csv[p] ELSE <<>>

Active(p) == pc[p] # "idle"

Init ==
    /\ tables = {}
    /\ faq_embeddings = <<>>
    /\ data_hash = {}
    /\ pool = maxconn
    /\ conn = [p \in Procs |-> NoConn]
    /\ pc = [p \in Procs |-> "idle"]
    /\ op = [p \in Procs |-> "none"]
    /\ exc = [p \in Procs |-> FALSE]
    /\ data_csv = [p \in Procs |-> <<>>]
    /\ file_content = [p \in Procs |-> <<>>]
    /\ file_hash = [p \in Procs |-> <<>>]
    /\ ret = [p \in Procs |-> FALSE]
    /\ embeddings = [p \in Procs |-> <<>>]
    /\ call = [p \in Procs |-> "none"]
    /\ outcome = [p \in Procs |-> "none"]
    /\ calls = [p \in Procs |-> 0]
    /\ failedOps = [p \in Procs |-> {}]
    /\ branch = [p \in Procs |-> "none"]
    /\ pre = [p \in Procs |-> [tables |-> {}, faq |-> <<>>, hash |-> {}]]
    /\ prev = [p \in Procs |-> <<>>]
    /\ overlapped = [p \in Procs |-> FALSE]
    /\ committed = [p \in Procs |-> {}]
    /\ recovering = [p \in Procs |-> 0]

\* ------------------------------------------------------- calls and returns
\* The call of thread p ends: it returns or raises to its caller.
Finish(p, how) ==
    /\ pc' = [pc EXCEPT ![p] = "idle"]
    /\ op' = [op EXCEPT ![p] = "none"]
    /\ exc' = [exc EXCEPT ![p] = FALSE]
    /\ outcome' = [outcome EXCEPT ![p] = how]

\* History kept when thread p starts a call.
StartHistory(p) ==
    /\ calls' = [calls EXCEPT ![p] = 0]
    /\ failedOps' = [failedOps EXCEPT ![p] = {}]
    /\ committed' = [committed EXCEPT ![p] = {}]
    /\ branch' = [branch EXCEPT ![p] = "none"]
    /\ pre' = [pre EXCEPT ![p] = Store]
    /\ prev' = [prev EXCEPT ![p] = CleanRun(p)]
    /\ overlapped' = IF \E q \in Procs \ {p} : Active(q) /\ call[q] = "process_local_file"
                     THEN [q \in Procs |->
                             IF q = p \/ (Active(q) /\ call[q] = "process_local_file")
                             THEN TRUE ELSE overlapped[q]]
                     ELSE [overlapped EXCEPT ![p] = FALSE]

\* Thread p's last call is a run that committed its row replacement and
\* did not commit update_data_hash, and left the fingerprint out of data_hash:
\* rows updated, hash stale.
StoppedBetween(p) ==
    /\ call[p] = "process_local_file"
    /\ "insert_data" \in committed[p]
    /\ "update_data_hash" \notin committed[p]
    /\ file_hash[p] \notin data_hash

\* Position of a new run on d in a chain of runs on d that began with a run
\* that stopped between the two replacements: 1 directly after it, 2 later.
RecoveryPosition(p, d) ==
    IF call[p] = "process_local_file" /\ data_csv[p] = d
    THEN IF StoppedBetween(p) THEN 1
         ELSE IF recovering[p] > 0 THEN 2 ELSE 0
    ELSE 0

Failed(p, what) == failedOps' = [failedOps EXCEPT ![p] = @ \cup {what}]

\* Lines 59-62: process_local_file(data_csv) up to the call of check_data_hash.
process_local_file(p, d) ==
    /\ pc[p] = "idle"
    /\ call' = [call EXCEPT ![p] = "process_local_file"]
    /\ data_csv' = [data_csv EXCEPT ![p] = d]
    /\ file_content' = [file_content EXCEPT ![p] = PickleDumps(d)]
    /\ file_hash' = [file_hash EXCEPT ![p] = calculate_file_hash(PickleDumps(d))]
    /\ ret' = [ret EXCEPT ![p] = FALSE]
    /\ embeddings' = [embeddings EXCEPT ![p] = <<>>]
    /\ op' = [op EXCEPT ![p] = "check_data_hash"]
    /\ pc' = [pc EXCEPT ![p] = "getconn"]
    /\ outcome' = [outcome EXCEPT ![p] = "running"]
    /\ StartHistory(p)
    /\ recovering' = [recovering EXCEPT ![p] = RecoveryPosition(p, d)]
    /\ UNCHANGED <<storeVars, pool, conn, exc>>

\* Lines 119-120: setup_database() is called.
setup_database(p) ==
    /\ pc[p] = "idle"
    /\ call' = [call EXCEPT ![p] = "setup_database"]
    /\ op' = [op EXCEPT ![p] = "setup_database"]
    /\ pc' = [pc EXCEPT ![p] = "getconn"]
    /\ outcome' = [outcome EXCEPT ![p] = "running"]
    /\ StartHistory(p)
    /\ recovering' = [recovering EXCEPT ![p] = 0]
    /\ UNCHANGED <<storeVars, pool, conn, exc, localVars, ret, embeddings>>

\* The first statement of each storage operation.
FirstStep(o) ==
    CASE o = "check_data_hash" -> "check_exec"
      [] o = "insert_data" -> "insert_delete"
      [] o = "update_data_hash" -> "update_exec"
      [] o = "delete_all_data_hashes" -> "delete_exec"
      [] o = "setup_database" -> "setup_exec"

\* Lines 37 and 45: the wrapper checks a connection out of the pool.
getconn(p) ==
    /\ pc[p] = "getconn"
    /\ pool > 0
    /\ pool' = pool - 1
    /\ conn' = [conn EXCEPT ![p] = IdleConn]
    /\ pc' = [pc EXCEPT ![p] = FirstStep(op[p])]
    /\ UNCHANGED <<storeVars, op, exc, localVars, ret, embeddings, call, outcome,
                   calls, failedOps, branch, pre, prev, overlapped, committed, recovering>>

\* Line 37 raises (no connection can be had): the wrapper is outside every
\* try block of the operations, so the error reaches the caller of the method.
getconn_fail(p) ==
    /\ pc[p] = "getconn"
    /\ Finish(p, IF call[p] = "setup_database" THEN "setup_error" ELSE "storage_error")
    /\ Failed(p, "getconn")
    /\ UNCHANGED <<storeVars, pool, conn, localVars, ret, embeddings, call,
                   calls, branch, pre, prev, overlapped, committed, recovering>>

\* A refresh that returns after delete_all_data_hashes, without line 72.
AfterReturn_SkipsUpdate(o) ==
    CASE o = "check_data_hash" -> [op |-> "none", pc |-> "branch"]
      [] o = "insert_data" -> [op |-> "delete_all_data_hashes", pc |-> "getconn"]
      [] o = "delete_all_data_hashes" -> [op |-> "none", pc |-> "updated"]
      [] o = "update_data_hash" -> [op |-> "none", pc |-> "updated"]
      [] o = "setup_database" -> [op |-> "none", pc |-> "setup_done"]

\* A refresh that goes from insert_data to update_data_hash, without line 71.
AfterReturn_SkipsDelete(o) ==
    CASE o = "check_data_hash" -> [op |-> "none", pc |-> "branch"]
      [] o = "insert_data" -> [op |-> "update_data_hash", pc |-> "getconn"]
      [] o = "delete_all_data_hashes" -> [op |-> "update_data_hash", pc |-> "getconn"]
      [] o = "update_data_hash" -> [op |-> "none", pc |-> "updated"]
      [] o = "setup_database" -> [op |-> "none", pc |-> "setup_done"]

\* A run that records the fingerprint as soon as the check has returned.
AfterReturn_HashAfterCheck(o) ==
    CASE o = "check_data_hash" -> [op |-> "update_data_hash", pc |-> "getconn"]
      [] o = "insert_data" -> [op |-> "delete_all_data_hashes", pc |-> "getconn"]
      [] o = "delete_all_data_hashes" -> [op |-> "update_data_hash", pc |-> "getconn"]
      [] o = "update_data_hash" -> [op |-> "none", pc |-> "updated"]
      [] o = "setup_database" -> [op |-> "none", pc |-> "setup_done"]

\* Where control goes when operation o has returned normally to its caller.
AfterReturn(o) ==
    CASE o = "check_data_hash" -> [op |-> "none", pc |-> "branch"]
      [] o = "insert_data" -> [op |-> "delete_all_data_hashes", pc |-> "getconn"]
      [] o = "delete_all_data_hashes" -> [op |-> "update_data_hash", pc |-> "getconn"]
      [] o = "update_data_hash" -> [op |-> "none", pc |-> "updated"]
      [] o = "setup_database" -> [op |-> "none", pc |-> "setup_done"]

\* A wrapper without try/finally: an exception skips putconn.
putconn_NoFinally(p) ==
    /\ pc[p] = "putconn"
    /\ IF exc[p]
       THEN /\ Finish(p, "storage_error")
            /\ UNCHANGED <<pool, conn>>
       ELSE /\ pool' = pool + 1
            /\ conn' = [conn EXCEPT ![p] = NoConn]
            /\ LET nxt == AfterReturn(op[p])
               IN IF nxt.pc \in {"updated", "setup_done"}
                  THEN Finish(p, nxt.pc)
                  ELSE /\ op' = [op EXCEPT ![p] = nxt.op]
                       /\ pc' = [pc EXCEPT ![p] = nxt.pc]
                       /\ UNCHANGED <<exc, outcome>>
    /\ UNCHANGED <<storeVars, localVars, ret, embeddings, call, calls, failedOps,
                   branch, pre, prev, overlapped, committed, recovering>>

\* Lines 40-41: the finally clause returns the connection; the pool rolls
\* back whatever the connection left uncommitted.  Then the operation
\* returns, or its exception goes on to the caller of process_local_file.
putconn(p) ==
    /\ pc[p] = "putconn"
    /\ pool' = pool + 1
    /\ conn' = [conn EXCEPT ![p] = NoConn]
    /\ IF exc[p]
       THEN Finish(p, "storage_error")
       ELSE LET nxt == AfterReturn(op[p])
            IN IF nxt.pc \in {"updated", "setup_done"}
               THEN Finish(p, nxt.pc)
               ELSE /\ op' = [op EXCEPT ![p] = nxt.op]
                    /\ pc' = [pc EXCEPT ![p] = nxt.pc]
                    /\ UNCHANGED <<exc, outcome>>
    /\ UNCHANGED <<storeVars, localVars, ret, embeddings, call, calls, failedOps,
                   branch, pre, prev, overlapped, committed, recovering>>

\* ---------------------------------------------------------- check_data_hash
\* SELECT EXISTS(SELECT 1 FROM data_hash WHERE file_hash = %s)
SelectExists(h) == h \in data_hash

\* Lines 91-94: the query runs and its result is returned.
check_data_hash(p) ==
    /\ pc[p] = "check_exec"
    /\ "data_hash" \in tables
    /\ ret' = [ret EXCEPT ![p] = SelectExists(file_hash[p])]
    /\ conn' = [conn EXCEPT ![p].status = "intrans"]
    /\ pc' = [pc EXCEPT ![p] = "putconn"]
    /\ UNCHANGED <<storeVars, pool, op, exc, localVars, embeddings, call, outcome,
                   calls, failedOps, branch, pre, prev, overlapped, committed, recovering>>

\* A handler that returns True (fail-closed) when the query raises.
check_data_hash_fail_ReturnsTrue(p) ==
    /\ pc[p] = "check_exec"
    /\ ret' = [ret EXCEPT ![p] = TRUE]
    /\ conn' = [conn EXCEPT ![p].status = "error"]
    /\ pc' = [pc EXCEPT ![p] = "putconn"]
    /\ Failed(p, "check_data_hash")
    /\ UNCHANGED <<storeVars, pool, op, exc, localVars, embeddings, call, outcome,
                   calls, branch, pre, prev, overlapped, committed, recovering>>

\* Lines 95-97: the query raises; the handler returns False.
check_data_hash_fail(p) ==
    /\ pc[p] = "check_exec"
    /\ ret' = [ret EXCEPT ![p] = FALSE]
    /\ conn' = [conn EXCEPT ![p].status = "error"]
    /\ pc' = [pc EXCEPT ![p] = "putconn"]
    /\ Failed(p, "check_data_hash")
    /\ UNCHANGED <<storeVars, pool, op, exc, localVars, embeddings, call, outcome,
                   calls, branch, pre, prev, overlapped, committed, recovering>>

\* ------------------------------------------------------ process_local_file
\* Line 62 without its "not": the refresh runs when the hash is current.
check_branch_Inverted(p) ==
    /\ pc[p] = "branch"
    /\ IF ret[p]
       THEN /\ pc' = [pc EXCEPT ![p] = "columns"]
            /\ branch' = [branch EXCEPT ![p] = "stale"]
            /\ UNCHANGED <<op, exc, outcome>>
       ELSE /\ Finish(p, "up_to_date")
            /\ branch' = [branch EXCEPT ![p] = "current"]
    /\ UNCHANGED <<storeVars, pool, conn, localVars, ret, embeddings, call, calls,
                   failedOps, pre, prev, overlapped, committed, recovering>>

\* Line 62 (and 76-77): the result of the check decides the branch.
check_branch(p) ==
    /\ pc[p] = "branch"
    /\ IF ~ret[p]
       THEN /\ pc' = [pc EXCEPT ![p] = "columns"]
            /\ branch' = [branch EXCEPT ![p] = "stale"]
            /\ UNCHANGED <<op, exc, outcome>>
       ELSE /\ Finish(p, "up_to_date")
            /\ branch' = [branch EXCEPT ![p] = "current"]
    /\ UNCHANGED <<storeVars, pool, conn, localVars, ret, embeddings, call, calls,
                   failedOps, pre, prev, overlapped, committed, recovering>>

\* Lines 65-66 and 74-75: the column check; ValueError when it fails.
check_columns(p) ==
    /\ pc[p] = "columns"
    /\ IF HasRequiredColumns(PickleLoads(file_content[p]))
       THEN /\ pc' = [pc EXCEPT ![p] = "embed"]
            /\ UNCHANGED <<op, exc, outcome>>
       ELSE Finish(p, "schema_error")
    /\ UNCHANGED <<storeVars, pool, conn, localVars, ret, embeddings, call, calls,
                   failedOps, branch, pre, prev, overlapped, committed, recovering>>

\* Lines 67-70: the provider is called with all questions; insert_data is
\* called with the result.
embed(p) ==
    /\ pc[p] = "embed"
    /\ LET csv_data == PickleLoads(file_content[p])
       IN embeddings' = [embeddings EXCEPT ![p] = embed_documents(csv_data["questions"])]
    /\ calls' = [calls EXCEPT ![p] = @ + 1]
    /\ op' = [op EXCEPT ![p] = "insert_data"]
    /\ pc' = [pc EXCEPT ![p] = "getconn"]
    /\ UNCHANGED <<storeVars, pool, conn, exc, localVars, ret, call, outcome,
                   failedOps, branch, pre, prev, overlapped, committed, recovering>>

\* A refresh that has emptied faq_embeddings before it calls the provider.
embed_fail_RowsDeleted(p) ==
    /\ pc[p] = "embed"
    /\ calls' = [calls EXCEPT ![p] = @ + 1]
    /\ faq_embeddings' = <<>>
    /\ Finish(p, "provider_error")
    /\ Failed(p, "embed_documents")
    /\ UNCHANGED <<tables, data_hash, pool, conn, localVars, ret, embeddings, call,
                   branch, pre, prev, overlapped, committed, recovering>>

\* Line 69 raises: the provider call fails and the error leaves the run.
embed_fail(p) ==
    /\ pc[p] = "embed"
    /\ calls' = [calls EXCEPT ![p] = @ + 1]
    /\ Finish(p, "provider_error")
    /\ Failed(p, "embed_documents")
    /\ UNCHANGED <<storeVars, pool, conn, localVars, ret, embeddings, call,
                   branch, pre, prev, overlapped, committed, recovering>>

\* ------------------------------------------------------------- transactions
\* conn.commit(): the open work of thread p's connection becomes the
\* committed contents.  A table created by the transaction starts empty.
Commit(p) ==
    LET c == conn[p]
    IN /\ tables' = tables \cup c.created
       /\ faq_embeddings' =
            IF "faq_embeddings" \in c.created THEN c.faqIns
            ELSE SubSeq(faq_embeddings, c.faqDel + 1, Len(faq_embeddings)) \o c.faqIns
       /\ data_hash' =
            IF "data_hash" \in c.created THEN c.hashIns
            ELSE (data_hash \ c.hashDel) \cup c.hashIns
       /\ conn' = [conn EXCEPT ![p] = IdleConn]
       /\ committed' = [committed EXCEPT ![p] = @ \cup {op[p]}]

Others(p) == Procs \ {p}

\* -------------------------------------------------------------- insert_data
\* A DELETE on an autocommit connection: it takes effect at once.
insert_data_delete_Autocommit(p) ==
    /\ pc[p] = "insert_delete"
    /\ "faq_embeddings" \in tables
    /\ \A q \in Others(p) : conn[q].faqDel = 0
    /\ faq_embeddings' = <<>>
    /\ conn' = [conn EXCEPT ![p].status = "intrans"]
    /\ pc' = [pc EXCEPT ![p] = "insert_batch"]
    /\ UNCHANGED <<tables, data_hash, pool, op, exc, localVars, ret, embeddings, call,
                   outcome, calls, failedOps, branch, pre, prev, overlapped,
                   committed, recovering>>

\* Line 83: DELETE FROM faq_embeddings.  The statement waits while another
\* open transaction holds the rows it has to delete.
insert_data_delete(p) ==
    /\ pc[p] = "insert_delete"
    /\ "faq_embeddings" \in tables
    /\ \A q \in Others(p) : conn[q].faqDel = 0
    /\ conn' = [conn EXCEPT ![p].status = "intrans",
                            ![p].faqDel = Len(faq_embeddings)]
    /\ pc' = [pc EXCEPT ![p] = "insert_batch"]
    /\ UNCHANGED <<storeVars, pool, op, exc, localVars, ret, embeddings, call,
                   outcome, calls, failedOps, branch, pre, prev, overlapped, committed, recovering>>

\* Lines 84-85: execute_batch sends one INSERT per element of args.
insert_data_batch(p) ==
    /\ pc[p] = "insert_batch"
    /\ LET csv_data == PickleLoads(file_content[p])
           args == InsertArgs(csv_data["questions"], csv_data["answers"], embeddings[p])
           n == Len(conn[p].faqIns)
       IN IF n < Len(args)
          THEN /\ conn' = [conn EXCEPT ![p].faqIns = Append(@, args[n + 1])]
               /\ pc' = pc
          ELSE /\ pc' = [pc EXCEPT ![p] = "insert_commit"]
               /\ conn' = conn
    /\ UNCHANGED <<storeVars, pool, op, exc, localVars, ret, embeddings, call,
                   outcome, calls, failedOps, branch, pre, prev, overlapped, committed, recovering>>

\* Line 86: conn.commit().
insert_data_commit(p) ==
    /\ pc[p] = "insert_commit"
    /\ Commit(p)
    /\ pc' = [pc EXCEPT ![p] = "putconn"]
    /\ UNCHANGED <<pool, op, exc, localVars, ret, embeddings, call,
                   outcome, calls, failedOps, branch, pre, prev, overlapped, recovering>>

\* An insert_data that catches its error like the other operations do.
insert_data_fail_Swallowed(p) ==
    /\ pc[p] \in {"insert_delete", "insert_batch", "insert_commit"}
    /\ conn' = [conn EXCEPT ![p].status = "error"]
    /\ pc' = [pc EXCEPT ![p] = "putconn"]
    /\ Failed(p, "insert_data")
    /\ UNCHANGED <<storeVars, pool, op, exc, localVars, ret, embeddings, call,
                   outcome, calls, branch, pre, prev, overlapped, committed, recovering>>

\* A statement of lines 83-86 raises: insert_data has no handler, the error
\* passes through the wrapper's finally clause.
insert_data_fail(p) ==
    /\ pc[p] \in {"insert_delete", "insert_batch", "insert_commit"}
    /\ conn' = [conn EXCEPT ![p].status = "error"]
    /\ exc' = [exc EXCEPT ![p] = TRUE]
    /\ pc' = [pc EXCEPT ![p] = "putconn"]
    /\ Failed(p, "insert_data")
    /\ UNCHANGED <<storeVars, pool, op, localVars, ret, embeddings, call,
                   outcome, calls, branch, pre, prev, overlapped, committed, recovering>>

\* --------------------------------------------------- delete_all_data_hashes
\* Line 113: DELETE FROM data_hash; waits for rows another transaction holds.
delete_all_data_hashes(p) ==
    /\ pc[p] = "delete_exec"
    /\ "data_hash" \in tables
    /\ \A q \in Others(p) : conn[q].hashDel \cap data_hash = {}
    /\ conn' = [conn EXCEPT ![p].status = "intrans", ![p].hashDel = data_hash]
    /\ pc' = [pc EXCEPT ![p] = "delete_commit"]
    /\ UNCHANGED <<storeVars, pool, op, exc, localVars, ret, embeddings, call,
                   outcome, calls, failedOps, branch, pre, prev, overlapped, committed, recovering>>

\* Line 114: conn.commit().
delete_all_data_hashes_commit(p) ==
    /\ pc[p] = "delete_commit"
    /\ Commit(p)
    /\ pc' = [pc EXCEPT ![p] = "putconn"]
    /\ UNCHANGED <<pool, op, exc, localVars, ret, embeddings, call,
                   outcome, calls, failedOps, branch, pre, prev, overlapped, recovering>>

\* Lines 116-117: a statement of lines 112-114 raises; the handler prints
\* the error and the method returns normally.
delete_all_data_hashes_fail(p) ==
    /\ pc[p] \in {"delete_exec", "delete_commit"}
    /\ conn' = [conn EXCEPT ![p].status = "error"]
    /\ pc' = [pc EXCEPT ![p] = "putconn"]
    /\ Failed(p, "delete_all_data_hashes")
    /\ UNCHANGED <<storeVars, pool, op, exc, localVars, ret, embeddings, call,
                   outcome, calls, branch, pre, prev, overlapped, committed, recovering>>

\* --------------------------------------------------------- update_data_hash
\* A plain INSERT, without the ON CONFLICT clause.
InsertOnConflictDoNothing_PlainInsert(h, existing) == {h}

\* INSERT INTO data_hash (file_hash) VALUES (h) ON CONFLICT (file_hash)
\* DO NOTHING: the records the statement adds.
InsertOnConflictDoNothing(h, existing) == IF h \in existing THEN {} ELSE {h}

\* Line 103; waits while another open transaction inserts or deletes the
\* same file_hash.
update_data_hash(p) ==
    /\ pc[p] = "update_exec"
    /\ "data_hash" \in tables
    /\ \A q \in Others(p) : file_hash[p] \notin conn[q].hashIns \cup conn[q].hashDel
    /\ conn' = [conn EXCEPT ![p].status = "intrans",
                            ![p].hashIns = InsertOnConflictDoNothing(file_hash[p], data_hash)]
    /\ pc' = [pc EXCEPT ![p] = "update_commit"]
    /\ UNCHANGED <<storeVars, pool, op, exc, localVars, ret, embeddings, call,
                   outcome, calls, failedOps, branch, pre, prev, overlapped, committed, recovering>>

\* Line 105: conn.commit().
update_data_hash_commit(p) ==
    /\ pc[p] = "update_commit"
    /\ Commit(p)
    /\ pc' = [pc EXCEPT ![p] = "putconn"]
    /\ UNCHANGED <<pool, op, exc, localVars, ret, embeddings, call,
                   outcome, calls, failedOps, branch, pre, prev, overlapped, recovering>>

\* Lines 106-107: a statement of lines 102-105 raises; the handler prints
\* the error and the method returns normally.
update_data_hash_fail(p) ==
    /\ pc[p] \in {"update_exec", "update_commit"}
    /\ conn' = [conn EXCEPT ![p].status = "error"]
    /\ pc' = [pc EXCEPT ![p] = "putconn"]
    /\ Failed(p, "update_data_hash")
    /\ UNCHANGED <<storeVars, pool, op, exc, localVars, ret, embeddings, call,
                   outcome, calls, branch, pre, prev, overlapped, committed, recovering>>

\* ----------------------------------------------------------- setup_database
\* Lines 123-134: both CREATE TABLE IF NOT EXISTS statements; waits while
\* another open transaction is creating tables.
setup_database_create(p) ==
    /\ pc[p] = "setup_exec"
    /\ \A q \in Others(p) : conn[q].created = {}
    /\ conn' = [conn EXCEPT ![p].status = "intrans",
                            ![p].created = CreateTableIfNotExists("faq_embeddings", tables)
                                           \cup CreateTableIfNotExists("data_hash", tables)]
    /\ pc' = [pc EXCEPT ![p] = "setup_commit"]
    /\ UNCHANGED <<storeVars, pool, op, exc, localVars, ret, embeddings, call,
                   outcome, calls, failedOps, branch, pre, prev, overlapped, committed, recovering>>

\* Line 135: conn.commit().
setup_database_commit(p) ==
    /\ pc[p] = "setup_commit"
    /\ Commit(p)
    /\ pc' = [pc EXCEPT ![p] = "putconn"]
    /\ UNCHANGED <<pool, op, exc, localVars, ret, embeddings, call,
                   outcome, calls, failedOps, branch, pre, prev, overlapped, recovering>>

\* Lines 137-138: a statement of lines 122-135 raises; the handler prints
\* the error and the method returns normally.
setup_database_fail(p) ==
    /\ pc[p] \in {"setup_exec", "setup_commit"}
    /\ conn' = [conn EXCEPT ![p].status = "error"]
    /\ pc' = [pc EXCEPT ![p] = "putconn"]
    /\ Failed(p, "setup_database")
    /\ UNCHANGED <<storeVars, pool, op, exc, localVars, ret, embeddings, call,
                   outcome, calls, branch, pre, prev, overlapped, committed, recovering>>

\* -------------------------------------------------------------------- crash
\* The process dies: every call in progress stops where it is, the store
\* discards the open transactions, and the restarted process has a new pool.
crash ==
    /\ \E p \in Procs : Active(p)
    /\ pc' = [p \in Procs |-> "idle"]
    /\ op' = [p \in Procs |-> "none"]
    /\ exc' = [p \in Procs |-> FALSE]
    /\ outcome' = [p \in Procs |-> IF Active(p) THEN "crashed" ELSE outcome[p]]
    /\ failedOps' = [p \in Procs |-> IF Active(p) THEN failedOps[p] \cup {"crash"}
                                     ELSE failedOps[p]]
    /\ conn' = [p \in Procs |-> NoConn]
    /\ pool' = maxconn
    /\ UNCHANGED <<storeVars, localVars, ret, embeddings, call, calls, branch,
                   pre, prev, overlapped, committed, recovering>>

\* ------------------------------------------------------------ specification
Step(p) ==
    \/ \E d \in Datasets : process_local_file(p, d)
    \/ setup_database(p)
    \/ getconn(p)
    \/ getconn_fail(p)
    \/ putconn(p)
    \/ check_data_hash(p)
    \/ check_data_hash_fail(p)
    \/ check_branch(p)
    \/ check_columns(p)
    \/ embed(p)
    \/ embed_fail(p)
    \/ insert_data_delete(p)
    \/ insert_data_batch(p)
    \/ insert_data_commit(p)
    \/ insert_data_fail(p)
    \/ delete_all_data_hashes(p)
    \/ delete_all_data_hashes_commit(p)
    \/ delete_all_data_hashes_fail(p)
    \/ update_data_hash(p)
    \/ update_data_hash_commit(p)
    \/ update_data_hash_fail(p)
    \/ setup_database_create(p)
    \/ setup_database_commit(p)
    \/ setup_database_fail(p)

\* Sequential use: one caller, one call at a time.
Next == (\E p \in SeqProcs : Step(p)) \/ crash

Spec == Init /\ [][Next]_vars

\* Concurrent use: the tables exist and hold nothing or the result of a
\* complete refresh; every thread makes one run, and the runs may overlap.
InitConc ==
    /\ tables = AllTables
    /\ \E d \in ValidDatasets \cup {<<>>} :
          IF d = <<>>
          THEN faq_embeddings = <<>> /\ data_hash = {}
          ELSE faq_embeddings = RowsOf(d) /\ data_hash = {Fingerprint(d)}
    /\ pool = maxconn
    /\ conn = [p \in Procs |-> NoConn]
    /\ pc = [p \in Procs |-> "idle"]
    /\ op = [p \in Procs |-> "none"]
    /\ exc = [p \in Procs |-> FALSE]
    /\ data_csv = [p \in Procs |-> <<>>]
    /\ file_content = [p \in Procs |-> <<>>]
    /\ file_hash = [p \in Procs |-> <<>>]
    /\ ret = [p \in Procs |-> FALSE]
    /\ embeddings = [p \in Procs |-> <<>>]
    /\ call = [p \in Procs |-> "none"]
    /\ outcome = [p \in Procs |-> "none"]
    /\ calls = [p \in Procs |-> 0]
    /\ failedOps = [p \in Procs |-> {}]
    /\ branch = [p \in Procs |-> "none"]
    /\ pre = [p \in Procs |-> [tables |-> {}, faq |-> <<>>, hash |-> {}]]
    /\ prev = [p \in Procs |-> <<>>]
    /\ overlapped = [p \in Procs |-> FALSE]
    /\ committed = [p \in Procs |-> {}]
    /\ recovering = [p \in Procs |-> 0]

ConcStep(p) ==
    \/ \E d \in ValidDatasets : outcome[p] = "none" /\ process_local_file(p, d)
    \/ getconn(p)
    \/ putconn(p)
    \/ check_data_hash(p)
    \/ check_branch(p)
    \/ check_columns(p)
    \/ embed(p)
    \/ insert_data_delete(p)
    \/ insert_data_batch(p)
    \/ insert_data_commit(p)
    \/ delete_all_data_hashes(p)
    \/ delete_all_data_hashes_commit(p)
    \/ update_data_hash(p)
    \/ update_data_hash_commit(p)

NextConc == \E p \in Procs : ConcStep(p)

SpecConc == InitConc /\ [][NextConc]_vars

\* ------------------------------------------------------------------- claims
\* No call is in progress: the store is in a state between runs.
BetweenRuns == \A p \in Procs : pc[p] = "idle"

\* Thread p's last call is a run of process_local_file that has ended.
RunEnded(p) == call[p] = "process_local_file" /\ pc[p] = "idle"

\* The committed rows and hash records are those of the start of p's call.
ContentsAsBefore(p) == faq_embeddings = pre[p].faq /\ data_hash = pre[p].hash

\* C1: between sequential runs, whenever data_hash contains fingerprint(D)
\* for a dataset D, faq_embeddings holds exactly the rows built from D, also
\* after runs that crashed or failed between the two commits.
C1_HashImpliesRows ==
    BetweenRuns =>
        \A d \in ValidDatasets :
            Fingerprint(d) \in data_hash => faq_embeddings = RowsOf(d)

\* C2: between sequential runs data_hash holds at most one record, also
\* after runs in which a storage operation failed.
C2_AtMostOneHashRecord ==
    BetweenRuns => Cardinality(data_hash) <= 1

\* C3: a run whose provider call fails ends with that error and leaves the
\* rows of faq_embeddings and the records of data_hash as they were when the
\* run started.
C3_ProviderFailureWritesNothing ==
    \A p \in SeqProcs :
        "embed_documents" \in failedOps[p] =>
            /\ RunEnded(p)
            /\ outcome[p] = "provider_error"
            /\ ContentsAsBefore(p)
            /\ tables = pre[p].tables

C3_Witness ==
    /\ outcome[1] = "provider_error"
    /\ pre[1].faq # <<>>
    /\ pre[1].hash # {}
    /\ file_hash[1] \notin pre[1].hash

\* C4: a run on a dataset lacking 'questions' or 'answers' never calls the
\* provider and commits nothing; once its hash check has returned (false by
\* no match or by a failed query) it ends by raising the schema error.
C4_SchemaErrorWritesNothing ==
    \A p \in SeqProcs :
        (call[p] = "process_local_file" /\ data_csv[p] \in InvalidDatasets) =>
            /\ calls[p] = 0
            /\ ContentsAsBefore(p)
            /\ tables = pre[p].tables
            /\ branch[p] # "current"
            /\ outcome[p] \in {"running", "schema_error", "storage_error", "crashed"}
            /\ (branch[p] = "stale" /\ pc[p] = "idle" /\ outcome[p] # "crashed")
                  => outcome[p] = "schema_error"

C4_Witness ==
    /\ data_csv[1] \in InvalidDatasets
    /\ outcome[1] = "schema_error"
    /\ "check_data_hash" \in failedOps[1]
    /\ faq_embeddings # <<>>
    /\ data_hash # {}

\* C5: a run on dataset D that follows directly on a failure-free completed
\* run on the same D, and itself meets no failure, finds the fingerprint
\* current and writes nothing: the store is as the first run left it.
C5_SecondRunIsNoOp ==
    \A p \in SeqProcs :
        (RunEnded(p) /\ prev[p] = data_csv[p] /\ failedOps[p] = {}) =>
            /\ outcome[p] = "up_to_date"
            /\ calls[p] = 0
            /\ Store = pre[p]

C5_Witness ==
    /\ RunEnded(1)
    /\ prev[1] = data_csv[1]
    /\ failedOps[1] = {}
    /\ outcome[1] = "up_to_date"
    /\ faq_embeddings = RowsOf(data_csv[1])
    /\ data_hash = {file_hash[1]}

\* C6: when the existence query fails check_data_hash returns false, the run
\* never stops as up to date, and (nothing else failing, the dataset being
\* schema-valid) it carries out the full refresh: one provider call, the
\* rows replaced, the fingerprint stored.
C6_FailedCheckForcesRefresh ==
    \A p \in SeqProcs :
        "check_data_hash" \in failedOps[p] =>
            /\ ~ret[p]
            /\ branch[p] # "current"
            /\ outcome[p] # "up_to_date"
            /\ (pc[p] = "idle" /\ failedOps[p] = {"check_data_hash"}
                  /\ data_csv[p] \in ValidDatasets)
                  => /\ outcome[p] = "updated"
                     /\ calls[p] = 1
                     /\ faq_embeddings = RowsOf(data_csv[p])
                     /\ file_hash[p] \in data_hash

C6_Witness ==
    /\ failedOps[1] = {"check_data_hash"}
    /\ file_hash[1] \in pre[1].hash
    /\ outcome[1] = "updated"

\* C7: after a failure-free run on a schema-valid dataset with N rows that
\* took the stale branch, faq_embeddings holds exactly N rows, and row i is
\* (questions[i], answers[i], bytes of embedding i of the provider's response).
C7_RowsMatchByIndex ==
    \A p \in SeqProcs :
        (RunEnded(p) /\ outcome[p] = "updated" /\ branch[p] = "stale"
           /\ failedOps[p] = {}) =>
            LET questions == data_csv[p]["questions"]
                answers == data_csv[p]["answers"]
            IN /\ Len(faq_embeddings) = Len(questions)
               /\ \A i \in 1..Len(questions) :
                     /\ faq_embeddings[i].question = questions[i]
                     /\ faq_embeddings[i].answer = answers[i]
                     /\ faq_embeddings[i].embedding = EmbeddingBytes(embeddings[p][i])

C7_Witness ==
    /\ RunEnded(1) /\ outcome[1] = "updated" /\ failedOps[1] = {}
    /\ Len(pre[1].faq) = MaxRows
    /\ Len(faq_embeddings) = MaxRows
    /\ faq_embeddings # pre[1].faq

\* C8: a run calls the provider at most once and only after its hash check
\* returned false; a run whose check returned true calls it zero times and
\* changes no row and no hash record.
C8_ProviderOnlyWhenStale ==
    \A p \in SeqProcs :
        call[p] = "process_local_file" =>
            /\ calls[p] <= 1
            /\ calls[p] = 1 => (branch[p] = "stale" /\ ~ret[p])
            /\ (pc[p] = "branch" /\ ret[p]) => (calls[p] = 0 /\ Store = pre[p])
            /\ branch[p] = "current" =>
                  /\ ret[p]
                  /\ calls[p] = 0
                  /\ Store = pre[p]
                  /\ outcome[p] = "up_to_date"

C8_Witness ==
    /\ branch[1] = "current"
    /\ outcome[1] = "up_to_date"
    /\ faq_embeddings # <<>>
    /\ file_hash[1] \in data_hash

\* A fingerprint in data_hash is not the fingerprint of the stored rows.
HashMismatch ==
    \E d \in ValidDatasets :
        Fingerprint(d) \in data_hash /\ faq_embeddings # RowsOf(d)

BothRunsUpdated ==
    /\ \A p \in Procs : RunEnded(p) /\ outcome[p] = "updated"
    /\ data_csv[1] # data_csv[2]

\* C9: two runs with different datasets that both complete can leave in
\* data_hash a fingerprint that is not the one of the rows in faq_embeddings
\* (the witness), and they do so only when the two runs overlapped in time.
C9_MismatchOnlyWhenOverlapped ==
    (BothRunsUpdated /\ HashMismatch) => \A p \in Procs : overlapped[p]

C9_Witness ==
    /\ BothRunsUpdated
    /\ HashMismatch
    /\ Cardinality(data_hash) = 1

\* C10: setup_database never changes a row or a hash record and never drops
\* a table; on a store where both tables exist it changes nothing, and a call
\* that meets no failure leaves both tables in existence, so a second call
\* leaves the state of the first.
C10_SetupIdempotent ==
    \A p \in SeqProcs :
        call[p] = "setup_database" =>
            /\ ContentsAsBefore(p)
            /\ pre[p].tables \subseteq tables
            /\ pre[p].tables = AllTables => tables = AllTables
            /\ (outcome[p] = "setup_done" /\ failedOps[p] = {}) => tables = AllTables

C10_Witness ==
    /\ call[1] = "setup_database"
    /\ outcome[1] = "setup_done"
    /\ failedOps[1] = {}
    /\ pre[1].tables = AllTables
    /\ faq_embeddings # <<>>
    /\ data_hash # {}

HashOps == {"delete_all_data_hashes", "update_data_hash"}

\* C11: within a run the commit of insert_data precedes every change to
\* data_hash: the run starts neither hash operation and changes no hash
\* record before its row replacement has committed, and after a failed row
\* replacement it performs neither delete_all_data_hashes nor update_data_hash.
C11_RowsBeforeHash ==
    \A p \in SeqProcs :
        call[p] = "process_local_file" =>
            /\ op[p] \in HashOps => "insert_data" \in committed[p]
            /\ committed[p] \cap HashOps # {} => "insert_data" \in committed[p]
            /\ data_hash # pre[p].hash => "insert_data" \in committed[p]
            /\ "insert_data" \in failedOps[p] =>
                  /\ op[p] \notin HashOps
                  /\ committed[p] = {}
                  /\ data_hash = pre[p].hash

C11_Witness ==
    /\ "insert_data" \in failedOps[1]
    /\ outcome[1] = "storage_error"
    /\ pre[1].hash # {}
    /\ file_hash[1] \notin pre[1].hash

\* C12: row replacement is all-or-nothing: as long as the insert_data of a
\* run has not committed (it failed, or the process crashed, after the DELETE
\* or part-way through the batch) faq_embeddings is what it was when the run
\* started; once committed it is the complete row set of the run's dataset;
\* it is never emptied or left with part of a dataset.
C12_RowReplacementAtomic ==
    \A p \in SeqProcs :
        call[p] = "process_local_file" =>
            /\ "insert_data" \notin committed[p] => faq_embeddings = pre[p].faq
            /\ "insert_data" \in committed[p] => faq_embeddings = RowsOf(data_csv[p])
            /\ faq_embeddings = <<>> => pre[p].faq = <<>>
            /\ faq_embeddings \in {<<>>} \cup {RowsOf(d) : d \in ValidDatasets}

C12_Witness ==
    /\ pc[1] = "putconn"
    /\ exc[1]
    /\ conn[1].faqDel > 0
    /\ Len(conn[1].faqIns) > 0
    /\ Len(conn[1].faqIns) < Len(data_csv[1]["questions"])
    /\ faq_embeddings = pre[1].faq

\* C13: hash replacement is one transactional unit: when a run has ended,
\* data_hash either is exactly what it was when the run started or is the
\* result of the whole replacement, the new fingerprint alone; it is never
\* emptied without the new fingerprint and never holds it next to an old one.
C13_HashReplacementAtomic ==
    \A p \in SeqProcs :
        RunEnded(p) =>
            \/ data_hash = pre[p].hash
            \/ data_hash = {file_hash[p]}

\* C14: after a run on D stopped with the rows replaced and the hash stale,
\* the next run on D does not find the fingerprint current; and the run of
\* the chain of repeated runs on D that completes without failure leaves
\* faq_embeddings with exactly the rows of D and data_hash with exactly
\* fingerprint(D).
C14_AtLeastOnceRecovery ==
    \A p \in SeqProcs :
        (call[p] = "process_local_file" /\ recovering[p] > 0) =>
            /\ (recovering[p] = 1 /\ branch[p] # "none") => branch[p] = "stale"
            /\ (RunEnded(p) /\ failedOps[p] = {}
                  /\ outcome[p] \in {"updated", "up_to_date"})
                  => /\ faq_embeddings = RowsOf(data_csv[p])
                     /\ data_hash = {file_hash[p]}

\* Positions at which the wrapper's with block is open.
InsideWith ==
    {"check_exec", "insert_delete", "insert_batch", "insert_commit", "delete_exec",
     "delete_commit", "update_exec", "update_commit", "setup_exec", "setup_commit",
     "putconn"}

Held(p) == conn[p].status # "none"

\* C15: a thread holds a pooled connection exactly while it is inside one
\* storage operation (so never more than one), the pool misses exactly the
\* connections that are held, and a thread holds none while the provider is
\* called and none after its call has ended, however it ended.
C15_ConnectionScoped ==
    /\ \A p \in Procs :
          /\ Held(p) <=> pc[p] \in InsideWith
          /\ pc[p] \in {"embed", "idle"} => ~Held(p)
    /\ pool = maxconn - Cardinality({p \in Procs : Held(p)})

C15_Witness ==
    /\ RunEnded(1)
    /\ outcome[1] = "storage_error"
    /\ "insert_data" \in failedOps[1]
    /\ ~Held(1)
    /\ pool = maxconn

\* C16: when the fingerprint is already in data_hash, the INSERT of
\* update_data_hash adds no record, its commit leaves data_hash unchanged,
\* and no error leaves update_data_hash.
C16_ConflictSafe ==
    [][\A p \in SeqProcs :
          file_hash[p] \in data_hash =>
            /\ (pc[p] = "update_exec" /\ pc'[p] = "update_commit")
                  => (conn'[p].hashIns = {} /\ ~exc'[p])
            /\ (pc[p] = "update_commit" /\ "update_data_hash" \in committed'[p])
                  => (data_hash' = data_hash /\ ~exc'[p])
            /\ (pc[p] \in {"update_exec", "update_commit"} /\ pc'[p] = "putconn")
                  => ~exc'[p]]_vars

C16_Witness ==
    /\ pc[1] = "putconn"
    /\ op[1] = "update_data_hash"
    /\ "update_data_hash" \in committed[1]
    /\ "delete_all_data_hashes" \in failedOps[1]
    /\ file_hash[1] \in pre[1].hash
    /\ data_hash = pre[1].hash

\* C17: a run that took the stale branch and returned normally, reporting the
\* database as updated, leaves fingerprint(D) in data_hash.
C17_UpdatedImpliesHashStored ==
    \A p \in SeqProcs :
        (RunEnded(p) /\ branch[p] = "stale" /\ outcome[p] = "updated")
            => file_hash[p] \in data_hash

\* C18: every fingerprint that enters data_hash is the fingerprint of a run
\* whose dataset passed the column check and whose insert_data has committed
\* in that run; the fingerprint of a dataset lacking a required column is
\* never in data_hash and such a dataset is never reported as up to date.
C18_OnlyRefreshedFingerprints ==
    [][/\ \A h \in data_hash' \ data_hash :
             \E p \in SeqProcs :
                /\ file_hash[p] = h
                /\ HasRequiredColumns(data_csv[p])
                /\ "insert_data" \in committed[p]
       /\ \A d \in InvalidDatasets : Fingerprint(d) \notin data_hash'
       /\ \A p \in SeqProcs :
             data_csv'[p] \in InvalidDatasets => outcome'[p] # "up_to_date"]_vars

C18_Witness ==
    /\ "insert_data" \in committed[1]
    /\ "update_data_hash" \in committed[1]
    /\ file_hash[1] \in data_hash
    /\ file_hash[1] \notin pre[1].hash

====
